---- MODULE Spec2Model ----
(***************************************************************************)
(* Model of the NEAR bitcoin connector (near/connector/src/lib.rs) and of  *)
(* the script classifier it uses (near/types/src/bitcoin_connector_types). *)
(*                                                                         *)
(* Every entry point and every callback of the contract is one atomic      *)
(* action.  A panic (panic!, require!, unwrap on None/Err, an index out of *)
(* range) aborts the receipt: the host discards every storage write and    *)
(* every promise the call made, so the persisted state stays as it was.    *)
(* Strings and byte vectors are sequences of byte values 0..255.           *)
(***************************************************************************)
EXTENDS Integers, Sequences, FiniteSets, Bags, TLC

VARIABLES
    bitcoin_pk,           \* BitcoinConnector.bitcoin_pk (String)
    finalised_transfers,  \* BitcoinConnector.finalised_transfers (LookupSet<H256>)
    utxos,                \* BitcoinConnector.utxos (Vector<UTXO>)
    new_transfers,        \* BitcoinConnector.new_transfers (LookupMap<u64, _>)
    min_nonce,            \* BitcoinConnector.min_nonce
    last_nonce,           \* BitcoinConnector.last_nonce
    pending_fin,          \* fin_transfer_callback receipts in flight (bag of tx_raw)
    pending_sign,         \* sign_callback receipts in flight (bag of ser_tx)
    inserted,             \* history: each identity finalised_transfers.insert added
    mints,                \* mint promises issued to omni_btc, in order
    burns,                \* burn promises issued to omni_btc, in order
    events,               \* events logged, in order
    enqueued,             \* history: every transfer ft_on_transfer stored, in order
    built,                \* history: every (unsigned_tx, utxo, transfer) sign built
    last                  \* history: the last call, its arguments and its outcome

vars == <<bitcoin_pk, finalised_transfers, utxos, new_transfers, min_nonce,
          last_nonce, pending_fin, pending_sign, inserted, mints, burns,
          events, enqueued, built, last>>

contract == <<bitcoin_pk, finalised_transfers, utxos, new_transfers,
              min_nonce, last_nonce>>

(***************************************************************************)
(* Bounds of the model.                                                    *)
(***************************************************************************)
MaxInFlight == 2      \* deposit submissions awaiting their callback
MaxEnqueues == 2      \* ft_on_transfer calls in one behaviour

(***************************************************************************)
(* Byte-level helpers.                                                     *)
(***************************************************************************)
OP_RETURN == 106      \* 0x6a
OP_0 == 0             \* 0x00
PUSH_20 == 20         \* 0x14

None == <<"None">>
Some(x) == <<"Some", x>>

\* hex::encode: two lower-case hex digits (as ASCII codes) per byte.
HexDigit(n) == IF n < 10 THEN 48 + n ELSE 87 + n

HexEncode(bytes) ==
    [k \in 1..(2 * Len(bytes)) |->
        LET b == bytes[(k + 1) \div 2]
        IN  IF k % 2 = 1 THEN HexDigit(b \div 16) ELSE HexDigit(b % 16)]

\* bytes[from..] of a Rust slice (0-based from), for from <= len.
SliceFrom(bytes, from) == SubSeq(bytes, from + 1, Len(bytes))

IsCont(b) == b >= 128 /\ b <= 191

\* String::from_utf8: the well-formed UTF-8 byte sequences.
RECURSIVE ValidUtf8(_)
ValidUtf8(s) ==
    IF Len(s) = 0 THEN TRUE
    ELSE LET b == s[1]
             n == Len(s)
         IN  IF b <= 127 THEN ValidUtf8(Tail(s))
             ELSE IF b >= 194 /\ b <= 223
                  THEN n >= 2 /\ IsCont(s[2]) /\ ValidUtf8(SubSeq(s, 3, n))
             ELSE IF b >= 224 /\ b <= 239
                  THEN /\ n >= 3
                       /\ IsCont(s[2]) /\ IsCont(s[3])
                       /\ (b = 224 => s[2] >= 160)
                       /\ (b = 237 => s[2] <= 159)
                       /\ ValidUtf8(SubSeq(s, 4, n))
             ELSE IF b >= 240 /\ b <= 244
                  THEN /\ n >= 4
                       /\ IsCont(s[2]) /\ IsCont(s[3]) /\ IsCont(s[4])
                       /\ (b = 240 => s[2] >= 144)
                       /\ (b = 244 => s[2] <= 143)
                       /\ ValidUtf8(SubSeq(s, 5, n))
             ELSE FALSE

(***************************************************************************)
(* Script::from_bytes (bitcoin_connector_types.rs).  Indexing past the end *)
(* of script_raw, slicing from 2 a vector shorter than 2 and unwrapping a  *)
(* failed String::from_utf8 all panic; "Err" is the returned Err value.    *)
(***************************************************************************)
Script_from_bytes(script_raw) ==
    IF Len(script_raw) = 0
    THEN [tag |-> "panic", str |-> <<>>]               \* script_raw[0]
    ELSE IF script_raw[1] = OP_RETURN
    THEN IF Len(script_raw) < 2
         THEN [tag |-> "panic", str |-> <<>>]          \* script_raw[2..]
         ELSE IF ~ValidUtf8(SliceFrom(script_raw, 2))
         THEN [tag |-> "panic", str |-> <<>>]          \* from_utf8(..).unwrap()
         ELSE [tag |-> "OpReturn", str |-> SliceFrom(script_raw, 2)]
    ELSE IF script_raw[1] # OP_0
    THEN [tag |-> "Err", str |-> <<>>]
    ELSE IF Len(script_raw) < 2
    THEN [tag |-> "panic", str |-> <<>>]               \* script_raw[1]
    ELSE IF script_raw[2] = PUSH_20
    THEN [tag |-> "V0P2wpkh", str |-> HexEncode(SliceFrom(script_raw, 2))]
    ELSE [tag |-> "Err", str |-> <<>>]

(***************************************************************************)
(* Parsers of the libraries the contract calls and unwraps.                *)
(***************************************************************************)
IsAccountChar(c) == (c >= 97 /\ c <= 122) \/ (c >= 48 /\ c <= 57)
IsAccountSeparator(c) == c = 45 \/ c = 95 \/ c = 46      \* - _ .

\* str::parse::<AccountId>: 2..64 characters of a-z 0-9 joined by single
\* separators, no separator first or last.
ValidAccountId(text) ==
    /\ Len(text) >= 2
    /\ Len(text) <= 64
    /\ \A k \in 1..Len(text) : IsAccountChar(text[k]) \/ IsAccountSeparator(text[k])
    /\ ~IsAccountSeparator(text[1])
    /\ ~IsAccountSeparator(text[Len(text)])
    /\ \A k \in 1..(Len(text) - 1) :
          ~(IsAccountSeparator(text[k]) /\ IsAccountSeparator(text[k + 1]))

IsHexChar(c) == (c >= 48 /\ c <= 57) \/ (c >= 97 /\ c <= 102) \/ (c >= 65 /\ c <= 70)

\* PublicKey::from_str: 66 hex characters of a compressed key (prefix 02 or
\* 03) or 130 of an uncompressed one (prefix 04).  Whether the point lies on
\* the curve is not modelled.
ValidPublicKey(pk) ==
    /\ Len(pk) \in {66, 130}
    /\ \A k \in 1..Len(pk) : IsHexChar(pk[k])
    /\ pk[1] = 48
    /\ IF Len(pk) = 66 THEN pk[2] \in {50, 51} ELSE pk[2] = 52

\* PublicKey::p2wpkh_script_code: only a compressed key has one.
IsCompressed(pk) == Len(pk) = 66

(***************************************************************************)
(* The data the entry points are called with.                              *)
(***************************************************************************)
Alice == <<97, 108, 105, 99, 101>>                      \* "alice"
Bob == <<98, 111, 98>>                                  \* "bob"
NotAnAccount == <<72, 105>>                             \* "Hi"

KeyHash == <<57, 110, 118, 95, 63, 217, 155, 137, 76, 174, 167, 233, 46, 187,
             109, 135, 100, 174, 92, 221>>
KeyBytes == [i \in 1..33 |-> IF i = 1 THEN 2 ELSE (i * 7) % 256]

WitnessV0Script(payload) == <<OP_0, PUSH_20>> \o payload
OpReturnScript(text) == <<OP_RETURN, Len(text)>> \o text
P2pkhScript == <<118, 169, 20>> \o KeyHash \o <<136, 172>>

HashScript == WitnessV0Script(KeyHash)                  \* a P2WPKH script
KeyScript == WitnessV0Script(KeyBytes)                  \* 0x00 0x14 and 33 bytes

\* The values bitcoin_pk is constructed with: the hex of a compressed public
\* key (the form sign parses) or the hex of its 20-byte hash (what a P2WPKH
\* script carries).  fin_transfer_callback compares bitcoin_pk with the hex of
\* everything that follows 0x00 0x14: under the first the custody script is
\* KeyScript and HashScript pays some other key, under the second the reverse.
PkPool == {HexEncode(KeyBytes), HexEncode(KeyHash)}

ScriptPool ==
    {HashScript, KeyScript, P2pkhScript, OpReturnScript(Alice),
     OpReturnScript(Bob), OpReturnScript(NotAnAccount)}
Classified == [script_raw \in ScriptPool |-> Script_from_bytes(script_raw)]

Out(v, s) == [value |-> v, script_pubkey |-> s]

\* deserialize(&tx_raw): the raw transactions of the model, by name, with
\* compute_ntxid of each; "junk" does not decode.
RawTxs == {"a", "c", "d", "e", "f", "g", "junk"}

Deserialize(tx_raw) ==
    CASE tx_raw = "a" -> [ok |-> TRUE, ntxid |-> "A", output |->
            <<Out(2000, KeyScript), Out(0, OpReturnScript(Alice)),
              Out(5000, KeyScript), Out(900, HashScript)>>]
      [] tx_raw = "c" -> [ok |-> TRUE, ntxid |-> "C", output |->
            <<Out(0, OpReturnScript(Alice)), Out(1000, KeyScript),
              Out(0, OpReturnScript(Bob))>>]
      [] tx_raw = "d" -> [ok |-> TRUE, ntxid |-> "D", output |->
            <<Out(4000, KeyScript), Out(0, OpReturnScript(Alice)),
              Out(700, P2pkhScript)>>]
      [] tx_raw = "e" -> [ok |-> TRUE, ntxid |-> "E", output |->
            <<Out(2000, KeyScript)>>]
      [] tx_raw = "f" -> [ok |-> TRUE, ntxid |-> "F", output |->
            <<Out(1000, KeyScript), Out(0, OpReturnScript(NotAnAccount))>>]
      [] tx_raw = "g" -> [ok |-> TRUE, ntxid |-> "G", output |->
            <<Out(2000, KeyScript), Out(700, P2pkhScript)>>]
      [] OTHER -> [ok |-> FALSE, ntxid |-> "", output |-> <<>>]

get_tx_id(tx) == tx.ntxid

(***************************************************************************)
(* fin_transfer_callback, lines 148-187.                                   *)
(***************************************************************************)
\* Variant: the answer is unwrapped but not required to be true.
VerifyOutcomeUnwrapOnly(call_result) ==
    IF call_result = "Err" THEN "panic: unwrap on PromiseError" ELSE "ok"

\* require!(call_result.unwrap(), "Failed to verify proof")
VerifyOutcome(call_result) ==
    IF call_result = "Err" THEN "panic: unwrap on PromiseError"
    ELSE IF call_result = "Ok(false)" THEN "Failed to verify proof"
    ELSE "ok"

\* Script::from_bytes as the loop calls it; its results on the scripts of the
\* model's transactions are computed once.
Classify(script_raw) ==
    IF script_raw \in ScriptPool THEN Classified[script_raw]
    ELSE Script_from_bytes(script_raw)

\* Variant: a second OP_RETURN output replaces the recipient.
StepOutputLastRecipient(acc, tx_id, i, tx_output, pk) ==
    LET script == Classify(tx_output.script_pubkey)
    IN  IF script.tag = "panic"
        THEN [acc EXCEPT !.outcome = "panic: Script::from_bytes"]
        ELSE IF script.tag = "Err"
        THEN [acc EXCEPT !.outcome = "panic: unwrap on Err(Incorrect script)"]
        ELSE IF script.tag = "V0P2wpkh"
        THEN IF script.str = pk
             THEN [acc EXCEPT
                     !.value = acc.value + tx_output.value,
                     !.pushed = Append(acc.pushed,
                                  [txid |-> tx_id, vout |-> i,
                                   value |-> tx_output.value,
                                   script_pubkey |-> script])]
             ELSE acc
        ELSE [acc EXCEPT !.recipient = Some(script.str)]

\* Variant: every UTXO is recorded with output index 0.
StepOutputNoIndex(acc, tx_id, i, tx_output, pk) ==
    LET script == Classify(tx_output.script_pubkey)
    IN  IF script.tag = "panic"
        THEN [acc EXCEPT !.outcome = "panic: Script::from_bytes"]
        ELSE IF script.tag = "Err"
        THEN [acc EXCEPT !.outcome = "panic: unwrap on Err(Incorrect script)"]
        ELSE IF script.tag = "V0P2wpkh"
        THEN IF script.str = pk
             THEN [acc EXCEPT
                     !.value = acc.value + tx_output.value,
                     !.pushed = Append(acc.pushed,
                                  [txid |-> tx_id, vout |-> 0,
                                   value |-> tx_output.value,
                                   script_pubkey |-> script])]
             ELSE acc
        ELSE IF acc.recipient # None
             THEN [acc EXCEPT
                     !.outcome = "Tx should contain exactly one OP_RETURN script"]
             ELSE [acc EXCEPT !.recipient = Some(script.str)]

\* One iteration of the loop over tx.output: acc is the loop's state (value,
\* recipient, the UTXOs pushed so far, and the panic that ended it if any);
\* i is the 0-based output index.
StepOutput(acc, tx_id, i, tx_output, pk) ==
    LET script == Classify(tx_output.script_pubkey)
    IN  IF script.tag = "panic"
        THEN [acc EXCEPT !.outcome = "panic: Script::from_bytes"]
        ELSE IF script.tag = "Err"
        THEN [acc EXCEPT !.outcome = "panic: unwrap on Err(Incorrect script)"]
        ELSE IF script.tag = "V0P2wpkh"
        THEN IF script.str = pk
             THEN [acc EXCEPT
                     !.value = acc.value + tx_output.value,
                     !.pushed = Append(acc.pushed,
                                  [txid |-> tx_id, vout |-> i,
                                   value |-> tx_output.value,
                                   script_pubkey |-> script])]
             ELSE acc
        ELSE IF acc.recipient # None
             THEN [acc EXCEPT
                     !.outcome = "Tx should contain exactly one OP_RETURN script"]
             ELSE [acc EXCEPT !.recipient = Some(script.str)]

RECURSIVE WalkOutputs(_, _, _, _, _)
WalkOutputs(acc, tx_id, i, output, pk) ==
    IF i >= Len(output) \/ acc.outcome # "ok" THEN acc
    ELSE WalkOutputs(StepOutput(acc, tx_id, i, output[i + 1], pk),
                     tx_id, i + 1, output, pk)

\* Variant: the insert's answer is not looked at.
LookupSetInsertAlways(set, x) == [inserted |-> TRUE, set |-> set \cup {x}]

\* LookupSet::insert: true when the value was not present.
LookupSetInsert(set, x) == [inserted |-> x \notin set, set |-> set \cup {x}]

\* The amount of a U128 as its two 64-bit halves.
U128(hi, lo) == [hi |-> hi, lo |-> lo]

\* The whole callback on the state st: the outcome, the state it leaves when
\* it returns, the mint promise it creates, and the UTXOs its loop pushed
\* before it ended (they are kept only when the outcome is "ok").
fin_transfer_callback(st, call_result, tx_raw) ==
    LET failed(msg, pushed) ==
            [outcome |-> msg, utxos |-> st.utxos,
             finalised_transfers |-> st.finalised_transfers,
             mint |-> None, pushed |-> pushed]
        tx == Deserialize(tx_raw)
        tx_id == get_tx_id(tx)
        walk == WalkOutputs([outcome |-> "ok", value |-> 0, recipient |-> None,
                             pushed |-> <<>>],
                            tx_id, 0, tx.output, st.bitcoin_pk)
        ins == LookupSetInsert(st.finalised_transfers, tx_id)
    IN  IF VerifyOutcome(call_result) # "ok"
        THEN failed(VerifyOutcome(call_result), <<>>)
        ELSE IF ~tx.ok
        THEN failed("panic: deserialize", <<>>)
        ELSE IF walk.outcome # "ok"
        THEN failed(walk.outcome, walk.pushed)
        ELSE IF ~ins.inserted
        THEN failed("The transfer is already finalised", walk.pushed)
        ELSE IF walk.recipient # None /\ ~ValidAccountId(walk.recipient[2])
        THEN failed("panic: recipient.parse", walk.pushed)
        ELSE [outcome |-> "ok",
              utxos |-> st.utxos \o walk.pushed,
              finalised_transfers |-> ins.set,
              mint |-> IF walk.recipient # None
                       THEN Some([receiver_id |-> walk.recipient[2],
                                  amount |-> U128(0, walk.value)])
                       ELSE None,
              pushed |-> walk.pushed]

(***************************************************************************)
(* The consensus serialisation sign and sign_callback pass the transaction *)
(* through, as the sequence of its fields: version, [marker, flag,] the    *)
(* input count, each input's fields, the output count, each output's       *)
(* fields, [each input's witness stack,] lock_time.  The marker 0 and the  *)
(* flag 1 and the witness stacks are written when some witness is not      *)
(* empty or there is no input; a reader takes an input count of 0 for the  *)
(* marker and requires the flag 1 after it.                                *)
(***************************************************************************)
RECURSIVE FlattenInputs(_)
FlattenInputs(input) ==
    IF input = <<>> THEN <<>>
    ELSE <<input[1].previous_output.txid, input[1].previous_output.vout,
           input[1].script_sig, input[1].sequence>> \o FlattenInputs(Tail(input))

RECURSIVE FlattenOutputs(_)
FlattenOutputs(output) ==
    IF output = <<>> THEN <<>>
    ELSE <<output[1].value, output[1].script_pubkey>> \o FlattenOutputs(Tail(output))

\* Variant: the marker is written only for a witness that is not empty.
HasWitnessOnly(tx) == \E k \in 1..Len(tx.input) : tx.input[k].witness # <<>>

\* A transaction without inputs is written with the marker too: its input
\* count 0 would otherwise be read as the marker.
HasWitness(tx) ==
    \/ \E k \in 1..Len(tx.input) : tx.input[k].witness # <<>>
    \/ tx.input = <<>>

serialize(tx) ==
    <<tx.version>>
    \o (IF HasWitness(tx) THEN <<0, 1>> ELSE <<>>)
    \o <<Len(tx.input)>> \o FlattenInputs(tx.input)
    \o <<Len(tx.output)>> \o FlattenOutputs(tx.output)
    \o (IF HasWitness(tx)
        THEN [k \in 1..Len(tx.input) |-> tx.input[k].witness] ELSE <<>>)
    \o <<tx.lock_time>>

deserialize(bytes) ==
    LET segwit == bytes[2] = 0
        at_in == IF segwit THEN 4 ELSE 2
        n_in == bytes[at_in]
        at_out == at_in + 1 + 4 * n_in
        n_out == bytes[at_out]
        at_wit == at_out + 1 + 2 * n_out
        at_lock == IF segwit THEN at_wit + n_in ELSE at_wit
    IN  IF Len(bytes) < 4 \/ Len(bytes) < at_out \/ Len(bytes) # at_lock
        THEN [ok |-> FALSE]
        ELSE IF segwit /\ bytes[3] # 1
        THEN [ok |-> FALSE]                    \* unsupported segwit flag
        ELSE IF /\ segwit
                /\ n_in > 0
                /\ \A k \in 1..n_in : bytes[at_wit + k - 1] = <<>>
        THEN [ok |-> FALSE]                    \* flag set, no witness present
        ELSE [ok |-> TRUE,
              tx |-> [version |-> bytes[1],
                      lock_time |-> bytes[at_lock],
                      input |-> [k \in 1..n_in |->
                          [previous_output |->
                               [txid |-> bytes[at_in + 4 * (k - 1) + 1],
                                vout |-> bytes[at_in + 4 * (k - 1) + 2]],
                           script_sig |-> bytes[at_in + 4 * (k - 1) + 3],
                           sequence |-> bytes[at_in + 4 * (k - 1) + 4],
                           witness |-> IF segwit THEN bytes[at_wit + k - 1]
                                       ELSE <<>>]],
                      output |-> [k \in 1..n_out |->
                          [value |-> bytes[at_out + 2 * (k - 1) + 1],
                           script_pubkey |-> bytes[at_out + 2 * (k - 1) + 2]]]]]

(***************************************************************************)
(* The outbound path: ft_on_transfer, get_utxo, get_unsigned_tx, sign,     *)
(* sign_callback.                                                          *)
(***************************************************************************)
\* Variant: every output pays one fixed address.
address_script_pubkey_fixed(addr) == <<"script_pubkey", "bc1q-dest-1">>

\* Address::from_str(..).unwrap(): the address strings that parse.
ValidAddresses == {"bc1q-dest-1", "bc1q-dest-2"}
address_script_pubkey(addr) == <<"script_pubkey", addr>>

\* amount.0 as u64: the low 64 bits.
AsU64(amount) == amount.lo

\* LookupMap::insert.
LookupMapInsert(map, k, v) ==
    [n \in DOMAIN map \cup {k} |-> IF n = k THEN v ELSE map[n]]

\* LookupMap::remove.
LookupMapRemove(map, k) == [n \in DOMAIN map \ {k} |-> map[n]]

\* ft_on_transfer on the state st: the map it leaves, the burn promise and
\* the event.  It assigns to no counter.
ft_on_transfer(st, sender_id, amount, msg) ==
    [new_transfers |->
        LookupMapInsert(st.new_transfers, st.last_nonce,
            [sender_id |-> sender_id, recipient_on_bitcoin |-> msg,
             value |-> AsU64(amount)]),
     last_nonce |-> st.last_nonce,
     burn |-> [amount |-> amount],
     event |-> [event |-> "InitTransferEvent", sender_id |-> sender_id,
                recipient_on_bitcoin |-> msg, value |-> AsU64(amount)]]

\* Variant: the scan keeps the last entry of largest value.
RECURSIVE ScanMaxLast(_, _, _)
ScanMaxLast(us, i, max_j) ==
    IF i >= Len(us) THEN max_j
    ELSE ScanMaxLast(us, i + 1,
                     IF us[i + 1].value >= us[max_j + 1].value THEN i ELSE max_j)

\* The loop of get_utxo: the 0-based index of the first entry of largest value.
RECURSIVE ScanMax(_, _, _)
ScanMax(us, i, max_j) ==
    IF i >= Len(us) THEN max_j
    ELSE ScanMax(us, i + 1, IF us[i + 1].value > us[max_j + 1].value THEN i ELSE max_j)

\* Vector::swap_remove: the entry at index goes, the last entry takes its place.
SwapRemove(us, index) ==
    [k \in 1..(Len(us) - 1) |-> IF k = index + 1 THEN us[Len(us)] ELSE us[k]]

\* Variant: an empty vector yields a zero entry instead of a panic.
get_utxo_or_default(us) ==
    LET max_j == ScanMax(us, 1, 0)
    IN  IF max_j >= Len(us)
        THEN [ok |-> TRUE, utxo |-> [txid |-> "", vout |-> 0, value |-> 0],
              utxos |-> us]
        ELSE [ok |-> TRUE, utxo |-> us[max_j + 1], utxos |-> SwapRemove(us, max_j)]

\* Variant: the selected entry is read but stays in the vector.
get_utxo_keep(us) ==
    LET max_j == ScanMax(us, 1, 0)
    IN  IF max_j >= Len(us)
        THEN [ok |-> FALSE]
        ELSE [ok |-> TRUE, utxo |-> us[max_j + 1], utxos |-> us]

get_utxo(us) ==
    LET max_j == ScanMax(us, 1, 0)
    IN  IF max_j >= Len(us)
        THEN [ok |-> FALSE]                            \* swap_remove panics
        ELSE [ok |-> TRUE, utxo |-> us[max_j + 1], utxos |-> SwapRemove(us, max_j)]

get_unsigned_tx(st) ==
    LET sel == get_utxo(st.utxos)
        new_transfer_data == st.new_transfers[st.min_nonce]
        txin == [previous_output |-> [txid |-> sel.utxo.txid, vout |-> sel.utxo.vout],
                 script_sig |-> <<>>,
                 sequence |-> <<255, 255, 255, 255>>,
                 witness |-> <<>>]
        txout == [value |-> new_transfer_data.value,
                  script_pubkey |->
                      address_script_pubkey(new_transfer_data.recipient_on_bitcoin)]
    IN  IF ~sel.ok
        THEN [outcome |-> "panic: swap_remove out of bounds"]
        ELSE IF st.min_nonce \notin DOMAIN st.new_transfers
        THEN [outcome |-> "panic: unwrap on None"]
        ELSE IF new_transfer_data.recipient_on_bitcoin \notin ValidAddresses
        THEN [outcome |-> "panic: Address::from_str"]
        ELSE [outcome |-> "ok",
              unsigned_tx |-> [version |-> 2, lock_time |-> 0,
                               input |-> <<txin>>, output |-> <<txout>>],
              utxo |-> sel.utxo,
              transfer |-> new_transfer_data,
              nonce |-> st.min_nonce,
              utxos |-> sel.utxos,
              new_transfers |-> LookupMapRemove(st.new_transfers, st.min_nonce),
              min_nonce |-> st.min_nonce + 1]

\* sign_input: the digest of input 0 for the custody key and the UTXO's value.
sign_input(st, unsigned_tx, utxo) ==
    IF ~ValidPublicKey(st.bitcoin_pk) \/ ~IsCompressed(st.bitcoin_pk)
    THEN [ok |-> FALSE]
    ELSE [ok |-> TRUE,
          sighash |-> <<"sighash", unsigned_tx, utxo.value>>]

sign(st) ==
    LET b == get_unsigned_tx(st)
        msg_to_sign == sign_input(st, b.unsigned_tx, b.utxo)
    IN  IF b.outcome # "ok" THEN [outcome |-> b.outcome]
        ELSE IF ~msg_to_sign.ok THEN [outcome |-> "panic: sign_input"]
        ELSE [outcome |-> "ok", build |-> b,
              request |-> [payload |-> msg_to_sign.sighash,
                           path |-> "bitcoin-connector-1", key_version |-> 0],
              ser_tx |-> serialize(b.unsigned_tx)]

\* Variant: the key string is pushed as it is, not decoded.
HexDecodeNot(str) == str

HexVal(c) == IF c <= 57 THEN c - 48 ELSE IF c >= 97 THEN c - 87 ELSE c - 55
HexDecode(str) ==
    [k \in 1..(Len(str) \div 2) |-> 16 * HexVal(str[2 * k - 1]) + HexVal(str[2 * k])]

\* Variant: a failed signer call is treated as an empty signature.
sign_callback_ignores_error(st, call_result, ser_tx) ==
    LET d == deserialize(ser_tx)
        sig == IF call_result[1] = "Ok" THEN call_result[2] ELSE ""
        signed == [d.tx EXCEPT !.input[1].witness =
                       @ \o <<sig, HexDecode(st.bitcoin_pk)>>]
    IN  IF ~d.ok THEN [outcome |-> "panic: deserialize"]
        ELSE IF ~ValidPublicKey(st.bitcoin_pk)
        THEN [outcome |-> "panic: PublicKey::from_str"]
        ELSE [outcome |-> "ok",
              event |-> [event |-> "SignTransferEvent",
                         bitcoin_tx_hex |-> <<"hex", serialize(signed)>>]]

sign_callback(st, call_result, ser_tx) ==
    LET d == deserialize(ser_tx)
        signed == [d.tx EXCEPT !.input[1].witness =
                       @ \o <<call_result[2], HexDecode(st.bitcoin_pk)>>]
    IN  IF ~d.ok THEN [outcome |-> "panic: deserialize"]
        ELSE IF call_result[1] # "Ok" THEN [outcome |-> "panic: unwrap on PromiseError"]
        ELSE IF ~ValidPublicKey(st.bitcoin_pk)
        THEN [outcome |-> "panic: PublicKey::from_str"]
        ELSE [outcome |-> "ok",
              event |-> [event |-> "SignTransferEvent",
                         bitcoin_tx_hex |-> <<"hex", serialize(signed)>>]]

(***************************************************************************)
(* The state machine.                                                      *)
(***************************************************************************)
State ==
    [bitcoin_pk |-> bitcoin_pk, finalised_transfers |-> finalised_transfers,
     utxos |-> utxos, new_transfers |-> new_transfers,
     min_nonce |-> min_nonce, last_nonce |-> last_nonce]

Call(op, arg, outcome, pushed) ==
    [op |-> op, arg |-> arg, outcome |-> outcome, pushed |-> pushed]

\* The funds-received notifications of the model: who calls, and with what.
Requests ==
    {[predecessor |-> "omni_btc", sender_id |-> "user1",
      amount |-> U128(0, 3000), msg |-> "bc1q-dest-1"],
     [predecessor |-> "mallory", sender_id |-> "user2",
      amount |-> U128(1, 700), msg |-> "bc1q-dest-2"]}

VerifyResults == {"Ok(true)", "Ok(false)", "Err"}
SignResults == {<<"Ok", "sig">>, <<"Err">>}

\* BitcoinConnector::new
Init ==
    /\ bitcoin_pk \in PkPool
    /\ finalised_transfers = {}
    /\ utxos = <<>>
    /\ new_transfers = <<>>
    /\ min_nonce = 0
    /\ last_nonce = 0
    /\ pending_fin = EmptyBag
    /\ pending_sign = EmptyBag
    /\ inserted = <<>>
    /\ mints = <<>>
    /\ burns = <<>>
    /\ events = <<>>
    /\ enqueued = <<>>
    /\ built = <<>>
    /\ last = Call("new", None, "ok", 0)

\* fin_transfer: decodes tx_raw and schedules the verification and the callback.
FinTransfer ==
    \E tx_raw \in RawTxs :
        /\ BagCardinality(pending_fin) < MaxInFlight
        /\ IF Deserialize(tx_raw).ok
           THEN /\ pending_fin' = pending_fin (+) SetToBag({tx_raw})
                /\ last' = Call("fin_transfer", None, "ok", 0)
           ELSE /\ pending_fin' = pending_fin
                /\ last' = Call("fin_transfer", None, "panic: deserialize", 0)
        /\ UNCHANGED <<contract, pending_sign, inserted, mints, burns, events,
                       enqueued, built>>

\* fin_transfer_callback, with the light client's answer.
FinTransferCallback ==
    \E tx_raw \in BagToSet(pending_fin), call_result \in VerifyResults :
        LET r == fin_transfer_callback(State, call_result, tx_raw)
        IN  /\ pending_fin' = pending_fin (-) SetToBag({tx_raw})
            /\ utxos' = r.utxos
            /\ finalised_transfers' = r.finalised_transfers
            /\ inserted' = IF r.outcome = "ok"
                           THEN Append(inserted, get_tx_id(Deserialize(tx_raw)))
                           ELSE inserted
            /\ mints' = IF r.mint # None
                        THEN Append(mints,
                                 [for_tx |-> get_tx_id(Deserialize(tx_raw)),
                                  receiver_id |-> r.mint[2].receiver_id,
                                  amount |-> r.mint[2].amount])
                        ELSE mints
            /\ last' = Call("fin_transfer_callback", call_result,
                            r.outcome, Len(r.pushed))
            /\ UNCHANGED <<bitcoin_pk, new_transfers, min_nonce, last_nonce,
                           pending_sign, burns, events, enqueued, built>>

\* ft_on_transfer: any account may call it.
FtOnTransfer ==
    \E req \in Requests :
        LET r == ft_on_transfer(State, req.sender_id, req.amount, req.msg)
        IN  /\ Len(enqueued) < MaxEnqueues
            /\ new_transfers' = r.new_transfers
            /\ last_nonce' = r.last_nonce
            /\ burns' = Append(burns, r.burn)
            /\ events' = Append(events, r.event)
            /\ enqueued' = Append(enqueued,
                   [nonce |-> last_nonce, predecessor |-> req.predecessor,
                    amount |-> req.amount,
                    transfer |-> r.new_transfers[last_nonce]])
            /\ last' = Call("ft_on_transfer", None, "ok", 0)
            /\ UNCHANGED <<bitcoin_pk, finalised_transfers, utxos, min_nonce,
                           pending_fin, pending_sign, inserted, mints, built>>

\* sign: builds the unsigned transaction and schedules the signer and the callback.
Sign ==
    LET r == sign(State)
    IN  IF r.outcome = "ok"
        THEN /\ utxos' = r.build.utxos
             /\ new_transfers' = r.build.new_transfers
             /\ min_nonce' = r.build.min_nonce
             /\ pending_sign' = pending_sign (+) SetToBag({r.ser_tx})
             /\ built' = Append(built,
                    [unsigned_tx |-> r.build.unsigned_tx, utxo |-> r.build.utxo,
                     transfer |-> r.build.transfer, nonce |-> r.build.nonce])
             /\ last' = Call("sign", None, "ok", 0)
             /\ UNCHANGED <<bitcoin_pk, finalised_transfers, last_nonce,
                            pending_fin, inserted, mints, burns, events, enqueued>>
        ELSE /\ last' = Call("sign", None, r.outcome, 0)
             /\ UNCHANGED <<contract, pending_fin, pending_sign, inserted, mints,
                            burns, events, enqueued, built>>

\* Variant: on a failed signer call the callback puts the spent UTXO back.
SignCallbackRefund ==
    \E ser_tx \in BagToSet(pending_sign), call_result \in SignResults :
        LET r == sign_callback(State, call_result, ser_tx)
            b == CHOOSE j \in DOMAIN built : serialize(built[j].unsigned_tx) = ser_tx
        IN  /\ pending_sign' = pending_sign (-) SetToBag({ser_tx})
            /\ events' = IF r.outcome = "ok" THEN Append(events, r.event) ELSE events
            /\ last' = Call("sign_callback", call_result, r.outcome, 0)
            /\ utxos' = IF call_result[1] = "Ok" THEN utxos
                        ELSE Append(utxos, built[b].utxo)
            /\ UNCHANGED <<bitcoin_pk, finalised_transfers, new_transfers,
                           min_nonce, last_nonce, pending_fin, inserted, mints,
                           burns, enqueued, built>>

\* sign_callback, with the signer's answer.
SignCallback ==
    \E ser_tx \in BagToSet(pending_sign), call_result \in SignResults :
        LET r == sign_callback(State, call_result, ser_tx)
        IN  /\ pending_sign' = pending_sign (-) SetToBag({ser_tx})
            /\ events' = IF r.outcome = "ok" THEN Append(events, r.event) ELSE events
            /\ last' = Call("sign_callback", call_result, r.outcome, 0)
            /\ UNCHANGED <<contract, pending_fin, inserted, mints, burns,
                           enqueued, built>>

Next ==
    \/ FinTransfer
    \/ FinTransferCallback
    \/ FtOnTransfer
    \/ Sign
    \/ SignCallback

Spec == Init /\ [][Next]_vars

(***************************************************************************)
(* Vocabulary of the properties.                                           *)
(***************************************************************************)
TxIds == {get_tx_id(Deserialize(tx_raw)) : tx_raw \in {x \in RawTxs : Deserialize(x).ok}}

\* A step that runs a fin_transfer_callback, and the tx_raw it ran on.
CallbackStep == BagCardinality(pending_fin') < BagCardinality(pending_fin)
CallbackRaw ==
    CHOOSE tx_raw \in BagToSet(pending_fin) :
        pending_fin' = pending_fin (-) SetToBag({tx_raw})
CallbackTx == Deserialize(CallbackRaw)

Times(seq, P(_)) == Cardinality({k \in DOMAIN seq : P(seq[k])})

\* How an output is classified for the contract whose key is pk.
IsRoutingMetadata(out) == Script_from_bytes(out.script_pubkey).tag = "OpReturn"
IsCustodyDeposit(out, pk) ==
    /\ Script_from_bytes(out.script_pubkey).tag = "V0P2wpkh"
    /\ Script_from_bytes(out.script_pubkey).str = pk
IsUnrecognized(out) == Script_from_bytes(out.script_pubkey).tag \in {"Err", "panic"}

RoutingOutputs(tx) == {k \in DOMAIN tx.output : IsRoutingMetadata(tx.output[k])}
CustodyOutputs(tx, pk) == {k \in DOMAIN tx.output : IsCustodyDeposit(tx.output[k], pk)}

RoutingText(tx) ==
    SliceFrom(tx.output[CHOOSE k \in RoutingOutputs(tx) : TRUE].script_pubkey, 2)

RECURSIVE SumValues(_, _)
SumValues(tx, ks) ==
    IF ks = {} THEN 0
    ELSE LET k == CHOOSE x \in ks : TRUE
         IN  tx.output[k].value + SumValues(tx, ks \ {k})

\* The ledger holds {txid, index k - 1, value} of output k of tx.
LedgerHolds(ledger, tx, k) ==
    \E j \in DOMAIN ledger :
        /\ ledger[j].txid = get_tx_id(tx)
        /\ ledger[j].vout = k - 1
        /\ ledger[j].value = tx.output[k].value

LedgerOf(ledger, id) == {j \in DOMAIN ledger : ledger[j].txid = id}

(***************************************************************************)
(* C1: every identity is inserted into the finalised set at most once and  *)
(* at most one mint is issued for it, whatever the interleaving of         *)
(* submissions and callbacks; a callback for an identity already in the    *)
(* set fails, with "The transfer is already finalised" when its            *)
(* verification result is true, and issues no mint.                        *)
(***************************************************************************)
C1_AtMostOnce ==
    \A id \in TxIds :
        /\ Times(inserted, LAMBDA x : x = id) <= 1
        /\ Times(mints, LAMBDA m : m.for_tx = id) <= 1

C1_LaterCallbackFails ==
    (CallbackStep /\ get_tx_id(CallbackTx) \in finalised_transfers)
        => /\ last'.outcome # "ok"
           /\ last'.arg = "Ok(true)" =>
                  last'.outcome = "The transfer is already finalised"
           /\ mints' = mints
           /\ inserted' = inserted
           /\ finalised_transfers' = finalised_transfers

C1_SingleFinalisation == [](C1_AtMostOnce) /\ [][C1_LaterCallbackFails]_vars

\* Two submissions of one raw transaction, both verified: the second callback
\* was rejected as a duplicate after the first had minted.
C1_Witness ==
    /\ last.op = "fin_transfer_callback"
    /\ last.arg = "Ok(true)"
    /\ last.outcome = "The transfer is already finalised"
    /\ Times(mints, LAMBDA m : m.for_tx = "A") = 1
    /\ Times(inserted, LAMBDA x : x = "A") = 1

(***************************************************************************)
(* C2: in every reachable state min_nonce <= last_nonce, and new_transfers *)
(* holds an entry at nonce n exactly when min_nonce <= n < last_nonce.     *)
(***************************************************************************)
C2_NonceWindow ==
    /\ min_nonce <= last_nonce
    /\ \A n \in 0..(MaxEnqueues + 1) :
           n \in DOMAIN new_transfers <=> (min_nonce <= n /\ n < last_nonce)

(***************************************************************************)
(* C3: after N successful enqueues and M successful dequeues, last_nonce   *)
(* is N, min_nonce is M and exactly N - M pending transfers remain.        *)
(***************************************************************************)
C3_NonceCounts ==
    /\ last_nonce = Len(enqueued)
    /\ min_nonce = Len(built)
    /\ Cardinality(DOMAIN new_transfers) = Len(enqueued) - Len(built)

(***************************************************************************)
(* C4: transfers are processed in the order they were enqueued and no      *)
(* nonce is reused or skipped: the k-th build uses the k-th transfer ever  *)
(* enqueued, no two enqueues get the same nonce, and every transfer that   *)
(* is enqueued and not yet built is still in the map at its nonce.         *)
(***************************************************************************)
C4_Fifo ==
    /\ \A k \in DOMAIN built :
           /\ k <= Len(enqueued)
           /\ built[k].transfer = enqueued[k].transfer
           /\ built[k].nonce = enqueued[k].nonce
    /\ \A i, j \in DOMAIN enqueued :
           i # j => enqueued[i].nonce # enqueued[j].nonce
    /\ \A k \in DOMAIN enqueued :
           k > Len(built) =>
               /\ enqueued[k].nonce \in DOMAIN new_transfers
               /\ new_transfers[enqueued[k].nonce] = enqueued[k].transfer

(***************************************************************************)
(* C5: no two builds select the same UTXO: the inputs of the transactions  *)
(* sign built are pairwise different outpoints, each is the outpoint of    *)
(* the UTXO that build took, and none of them is still in the ledger       *)
(* (selection and removal are one step).                                   *)
(***************************************************************************)
OutpointOf(u) == [txid |-> u.txid, vout |-> u.vout]

C6_Unverified ==
    (CallbackStep /\ last'.arg \in {"Ok(false)", "Err"})
        => /\ last'.outcome # "ok"
           /\ UNCHANGED <<utxos, finalised_transfers, new_transfers, min_nonce,
                          last_nonce, mints, inserted>>

C6_UnverifiedMutatesNothing == [][C6_Unverified]_vars

\* A callback with the answer false has run on a contract that holds UTXOs
\* and a pending transfer.
C6_Witness ==
    /\ last.op = "fin_transfer_callback"
    /\ last.arg = "Ok(false)"
    /\ last.outcome = "Failed to verify proof"
    /\ utxos # <<>>
    /\ DOMAIN new_transfers # {}

(***************************************************************************)
(* C7: a transaction with two or more OP_RETURN outputs is never           *)
(* finalised, wherever those outputs sit: no UTXO of it is in the ledger,  *)
(* no mint was issued for it and its identity is not in the finalised set. *)
(***************************************************************************)
C7_TwoRoutingRejected ==
    \A tx_raw \in RawTxs :
        LET tx == Deserialize(tx_raw)
        IN  (tx.ok /\ Cardinality(RoutingOutputs(tx)) >= 2)
                => /\ get_tx_id(tx) \notin finalised_transfers
                   /\ LedgerOf(utxos, get_tx_id(tx)) = {}
                   /\ Times(mints, LAMBDA m : m.for_tx = get_tx_id(tx)) = 0
                   /\ Times(inserted, LAMBDA x : x = get_tx_id(tx)) = 0

\* The verified callback of such a transaction was rejected at its second
\* OP_RETURN output, after a custody output before it had been pushed.
C7_Witness ==
    /\ last.op = "fin_transfer_callback"
    /\ last.arg = "Ok(true)"
    /\ last.outcome = "Tx should contain exactly one OP_RETURN script"
    /\ last.pushed >= 1
    /\ "C" \notin finalised_transfers
    /\ LedgerOf(utxos, "C") = {}

(***************************************************************************)
(* C8: a verified callback of a not yet finalised transaction with exactly *)
(* one OP_RETURN output (naming an account) stores every custody output as *)
(* {txid, index, value}, issues exactly one mint of the sum of their       *)
(* values to that account, and records the identity.                       *)
(***************************************************************************)
C8_Credits ==
    LET tx == CallbackTx
        id == get_tx_id(tx)
        custody == CustodyOutputs(tx, bitcoin_pk)
    IN  (/\ CallbackStep
         /\ last'.arg = "Ok(true)"
         /\ id \notin finalised_transfers
         /\ Cardinality(RoutingOutputs(tx)) = 1
         /\ ValidAccountId(RoutingText(tx)))
            => /\ finalised_transfers' = finalised_transfers \cup {id}
               /\ Len(utxos') = Len(utxos) + Cardinality(custody)
               /\ \A k \in custody : LedgerHolds(utxos', tx, k)
               /\ Len(mints') = Len(mints) + 1
               /\ mints'[Len(mints')] =
                      [for_tx |-> id, receiver_id |-> RoutingText(tx),
                       amount |-> U128(0, SumValues(tx, custody))]

C8_OneRoutingCredited == [][C8_Credits]_vars

(***************************************************************************)
(* C9: a callback for an identity already in the finalised set is rejected *)
(* before any UTXO insertion: its loop has pushed nothing by the time it   *)
(* is rejected.                                                            *)
(***************************************************************************)
C9_DuplicateRejectedFirst ==
    (last.op = "fin_transfer_callback"
        /\ last.outcome = "The transfer is already finalised")
        => last.pushed = 0

(***************************************************************************)
(* C10: an output of an unrecognized script is skipped: the verified       *)
(* callback of a not yet finalised transaction with custody outputs, one   *)
(* OP_RETURN output and a further output of another shape finalises it,    *)
(* stores its custody outputs and stores nothing for the other output.     *)
(***************************************************************************)
C10_Skips ==
    LET tx == CallbackTx
        id == get_tx_id(tx)
        custody == CustodyOutputs(tx, bitcoin_pk)
    IN  (/\ CallbackStep
         /\ last'.arg = "Ok(true)"
         /\ id \notin finalised_transfers
         /\ Cardinality(RoutingOutputs(tx)) = 1
         /\ ValidAccountId(RoutingText(tx))
         /\ custody # {}
         /\ \E k \in DOMAIN tx.output : IsUnrecognized(tx.output[k]))
            => /\ last'.outcome = "ok"
               /\ id \in finalised_transfers'
               /\ \A k \in DOMAIN tx.output :
                      LedgerHolds(utxos', tx, k) <=> k \in custody

C10_UnrecognizedSkipped == [][C10_Skips]_vars

(***************************************************************************)
(* C11: a sign call that finds the UTXO ledger empty, or no pending        *)
(* transfer at min_nonce, fails and leaves the pending map, the ledger and *)
(* both nonces as they were and schedules no signature request; also when  *)
(* UTXOs exist and no transfer is pending.                                 *)
(***************************************************************************)
SignStep == last'.op = "sign"

C11_Exhausted ==
    (SignStep /\ (utxos = <<>> \/ min_nonce \notin DOMAIN new_transfers))
        => /\ last'.outcome # "ok"
           /\ UNCHANGED <<new_transfers, utxos, min_nonce, last_nonce,
                          pending_sign, built>>

C11_ExhaustedSignChangesNothing == [][C11_Exhausted]_vars

\* A sign call has failed for want of a pending transfer while the ledger
\* held UTXOs, and the ledger still holds them all.
C11_Witness ==
    /\ last.op = "sign"
    /\ last.outcome = "panic: unwrap on None"
    /\ Len(utxos) = 2
    /\ built = <<>>

(***************************************************************************)
(* get_utxo on its own: every ledger of up to MaxLedger entries with       *)
(* different outpoints, and get_utxo applied to it until it is empty.      *)
(***************************************************************************)
MaxLedger == 3

LedgerEntries ==
    {[txid |-> t, vout |-> v, value |-> x, script_pubkey |-> Classify(KeyScript)] :
        t \in {"A", "E"}, v \in {0, 1}, x \in {2000, 5000}}

Ledgers ==
    UNION {{us \in [1..n -> LedgerEntries] :
                \A i, j \in 1..n : i # j => OutpointOf(us[i]) # OutpointOf(us[j])} :
           n \in 0..MaxLedger}

SelectionInit ==
    /\ bitcoin_pk = HexEncode(KeyBytes)
    /\ finalised_transfers = {}
    /\ utxos \in Ledgers
    /\ new_transfers = <<>>
    /\ min_nonce = 0
    /\ last_nonce = 0
    /\ pending_fin = EmptyBag
    /\ pending_sign = EmptyBag
    /\ inserted = <<>>
    /\ mints = <<>>
    /\ burns = <<>>
    /\ events = <<>>
    /\ enqueued = <<>>
    /\ built = <<>>
    /\ last = Call("new", None, "ok", 0)

GetUtxo ==
    LET r == get_utxo(utxos)
    IN  /\ IF r.ok
           THEN /\ utxos' = r.utxos
                /\ last' = Call("get_utxo", Some(r.utxo), "ok", 0)
           ELSE /\ utxos' = utxos
                /\ last' = Call("get_utxo", None, "panic: swap_remove out of bounds", 0)
        /\ UNCHANGED <<bitcoin_pk, finalised_transfers, new_transfers, min_nonce,
                       last_nonce, pending_fin, pending_sign, inserted, mints,
                       burns, events, enqueued, built>>

SelectionNext == GetUtxo

SelectionSpec == SelectionInit /\ [][SelectionNext]_vars

BagOfSeq(seq) ==
    [x \in {seq[k] : k \in DOMAIN seq} |-> Cardinality({k \in DOMAIN seq : seq[k] = x})]

(***************************************************************************)
(* C12: on a non-empty ledger get_utxo returns an entry of the largest     *)
(* value, the first such entry in the ledger's order, removes that entry   *)
(* and keeps every other entry (as a multiset); on an empty ledger it      *)
(* fails and the ledger stays empty.                                       *)
(***************************************************************************)
C12_Selection ==
    (last'.op = "get_utxo")
        => IF utxos = <<>>
           THEN last'.outcome # "ok" /\ utxos' = <<>>
           ELSE LET u == last'.arg[2]
                    largest == {k \in DOMAIN utxos :
                                   \A j \in DOMAIN utxos : utxos[j].value <= utxos[k].value}
                    first == CHOOSE k \in largest : \A j \in largest : k <= j
                IN  /\ last'.outcome = "ok"
                    /\ last'.arg = Some(utxos[first])
                    /\ BagOfSeq(utxos') (+) SetToBag({u}) = BagOfSeq(utxos)
                    /\ Len(utxos') = Len(utxos) - 1

C12_SelectsFirstLargest == [][C12_Selection]_vars

\* get_utxo has returned an entry although a later entry of the same
\* largest value was in the ledger, and that one is still there.
C12_Witness ==
    /\ last.op = "get_utxo"
    /\ last.outcome = "ok"
    /\ utxos # <<>>
    /\ \A k \in DOMAIN utxos : utxos[k].value <= last.arg[2].value
    /\ \E k \in DOMAIN utxos : utxos[k].value = last.arg[2].value
    /\ \E k \in DOMAIN utxos : utxos[k].value < last.arg[2].value

(***************************************************************************)
(* C13: a successful sign builds an unsigned transaction with exactly one  *)
(* input, the outpoint of the UTXO get_utxo selected, and exactly one      *)
(* output, paying the value of the transfer at min_nonce to that           *)
(* transfer's address; the selected UTXO leaves the ledger and the         *)
(* serialized transaction is handed to the callback.                       *)
(***************************************************************************)
C13_Build ==
    (SignStep /\ last'.outcome = "ok")
        => LET b == built'[Len(built')]
               t == new_transfers[min_nonce]
               largest == {k \in DOMAIN utxos :
                              \A j \in DOMAIN utxos : utxos[j].value <= utxos[k].value}
               first == CHOOSE k \in largest : \A j \in largest : k <= j
           IN  /\ Len(built') = Len(built) + 1
               /\ b.utxo = utxos[first]
               /\ b.transfer = t
               /\ Len(b.unsigned_tx.input) = 1
               /\ b.unsigned_tx.input[1].previous_output
                      = [txid |-> utxos[first].txid, vout |-> utxos[first].vout]
               /\ Len(b.unsigned_tx.output) = 1
               /\ b.unsigned_tx.output[1].value = t.value
               /\ b.unsigned_tx.output[1].script_pubkey
                      = <<"script_pubkey", t.recipient_on_bitcoin>>
               /\ BagOfSeq(utxos') (+) SetToBag({utxos[first]}) = BagOfSeq(utxos)
               /\ pending_sign' = pending_sign (+) SetToBag({serialize(b.unsigned_tx)})

C13_OneInputOneOutput == [][C13_Build]_vars

\* The spec's scenario: UTXOs of 2000 and 5000 and a pending transfer of 3000;
\* the 5000 UTXO was spent, the output pays 3000, the 2000 UTXO remains.
C13_Witness ==
    /\ last.op = "sign"
    /\ last.outcome = "ok"
    /\ Len(built) = 1
    /\ built[1].utxo.value = 5000
    /\ built[1].unsigned_tx.output[1].value = 3000
    /\ built[1].unsigned_tx.output[1].script_pubkey = <<"script_pubkey", "bc1q-dest-1">>
    /\ Len(utxos) = 1
    /\ utxos[1].value = 2000

(***************************************************************************)
(* C14: a sign_callback whose signer call failed emits no event and rolls  *)
(* nothing back: min_nonce stays as the sign call left it, the dequeued    *)
(* transfer is not put back and the selected UTXO is not returned.         *)
(***************************************************************************)
SignCallbackStep == BagCardinality(pending_sign') < BagCardinality(pending_sign)

C14_SignerFailed ==
    (SignCallbackStep /\ last'.arg = <<"Err">>)
        => /\ last'.outcome # "ok"
           /\ events' = events
           /\ UNCHANGED <<utxos, new_transfers, min_nonce, last_nonce>>
           /\ min_nonce' = Len(built')
           /\ \A k \in DOMAIN built :
                  \A j \in DOMAIN utxos' : utxos'[j] # built[k].utxo

C14_NoRollbackOnSignerFailure == [][C14_SignerFailed]_vars

\* After a successful sign the signer call failed: no event, min_nonce is 1,
\* the map is empty and the spent UTXO is not in the ledger.
C14_Witness ==
    /\ last.op = "sign_callback"
    /\ last.arg = <<"Err">>
    /\ Len(built) = 1
    /\ min_nonce = 1
    /\ new_transfers = <<>>
    /\ \A k \in DOMAIN events : events[k].event # "SignTransferEvent"
    /\ \A j \in DOMAIN utxos : utxos[j] # built[1].utxo
    /\ utxos # <<>>

(***************************************************************************)
(* C15: an outbound transfer only moves forward.  A SignTransferEvent is   *)
(* emitted only by a sign_callback that received a signature; it carries   *)
(* a transaction an earlier sign built, as built, with the witness         *)
(* [signature, custody public key] on its single input; and there is at    *)
(* most one event per build, events and awaited callbacks together never   *)
(* outnumbering the builds, nor the builds the enqueues.                   *)
(***************************************************************************)
SignedEvents == {k \in DOMAIN events : events[k].event = "SignTransferEvent"}

\* The build whose transaction event k carries, signed.
CarriesBuild(k, j) ==
    LET d == deserialize(events[k].bitcoin_tx_hex[2])
    IN  /\ d.ok
        /\ d.tx = [built[j].unsigned_tx EXCEPT !.input[1].witness = <<"sig", KeyBytes>>]

C15_EventsFollowBuilds ==
    /\ Len(built) <= Len(enqueued)
    /\ Cardinality(SignedEvents) + BagCardinality(pending_sign) <= Len(built)
    /\ \A k \in SignedEvents :
           /\ bitcoin_pk = HexEncode(KeyBytes)
           /\ \E j \in DOMAIN built : CarriesBuild(k, j)
    /\ \A j \in DOMAIN built :
           Cardinality({k \in SignedEvents : CarriesBuild(k, j)}) <= 1

C15_Forward ==
    /\ Len(enqueued') >= Len(enqueued)
    /\ Len(built') >= Len(built)
    /\ min_nonce' >= min_nonce
    /\ \A k \in DOMAIN events : k \in DOMAIN events' /\ events'[k] = events[k]
    /\ \A j \in DOMAIN built : j \in DOMAIN built' /\ built'[j] = built[j]
    /\ Cardinality(SignedEvents') > Cardinality(SignedEvents)
           => /\ SignCallbackStep
              /\ last'.arg = <<"Ok", "sig">>
              /\ Cardinality(SignedEvents') = Cardinality(SignedEvents) + 1
              /\ \E j \in DOMAIN built :
                     pending_sign' (+) SetToBag({serialize(built[j].unsigned_tx)})
                         = pending_sign

C15_OutboundForwardOnly == [](C15_EventsFollowBuilds) /\ [][C15_Forward]_vars

\* The event of a build was emitted although a transfer was enqueued and a
\* deposit finalised between the sign call and its callback.
C15_Witness ==
    /\ last.op = "sign_callback"
    /\ last.outcome = "ok"
    /\ Cardinality(SignedEvents) = 1
    /\ Len(built) = 1
    /\ new_transfers # <<>>
    /\ \E j \in DOMAIN utxos : utxos[j].txid # built[1].utxo.txid

(***************************************************************************)
(* C16: the verified callback of a not yet finalised transaction with      *)
(* custody outputs and no OP_RETURN output stores its custody outputs and  *)
(* records its identity but issues no mint; afterwards the identity is     *)
(* finalised, so a later callback for it is rejected and no mint is ever   *)
(* issued for it.                                                          *)
(***************************************************************************)
C16_Uncredited ==
    LET tx == CallbackTx
        id == get_tx_id(tx)
        custody == CustodyOutputs(tx, bitcoin_pk)
    IN  (/\ CallbackStep
         /\ last'.arg = "Ok(true)"
         /\ RoutingOutputs(tx) = {}
         /\ custody # {})
            => /\ mints' = mints
               /\ Times(mints, LAMBDA m : m.for_tx = id) = 0
               /\ id \in finalised_transfers'
               /\ IF id \in finalised_transfers
                  THEN /\ last'.outcome = "The transfer is already finalised"
                       /\ utxos' = utxos
                  ELSE /\ last'.outcome = "ok"
                       /\ Len(utxos') = Len(utxos) + Cardinality(custody)
                       /\ \A k \in custody : LedgerHolds(utxos', tx, k)

C16_CustodyWithoutRouting == [][C16_Uncredited]_vars

(***************************************************************************)
(* C17: ledger entries are created only by a deposit callback that ends    *)
(* with its identity newly in the finalised set, and removed only by a     *)
(* successful sign; fin_transfer, ft_on_transfer, sign_callback and a      *)
(* rejected deposit callback leave the ledger as it was; and no step       *)
(* removes an identity from the finalised set.                             *)
(***************************************************************************)
Created == BagOfSeq(utxos') (-) BagOfSeq(utxos)
Removed == BagOfSeq(utxos) (-) BagOfSeq(utxos')

C17_Frame ==
    /\ finalised_transfers \subseteq finalised_transfers'
    /\ last'.op \in {"fin_transfer", "ft_on_transfer", "sign_callback"}
           => utxos' = utxos
    /\ (last'.op = "fin_transfer_callback" /\ last'.outcome # "ok")
           => utxos' = utxos /\ finalised_transfers' = finalised_transfers
    /\ Created # EmptyBag
           => /\ CallbackStep
              /\ last'.outcome = "ok"
              /\ get_tx_id(CallbackTx) \in finalised_transfers' \ finalised_transfers
              /\ \A u \in BagToSet(Created) : u.txid = get_tx_id(CallbackTx)
              /\ Removed = EmptyBag
    /\ Removed # EmptyBag
           => /\ SignStep
              /\ last'.outcome = "ok"
              /\ BagCardinality(Removed) = 1
              /\ Created = EmptyBag

C17_LedgerFrame == [][C17_Frame]_vars

\* A deposit callback was rejected after its loop had pushed an entry, on a
\* contract whose ledger has had entries created and one removed.
C17_Witness ==
    /\ last.op = "fin_transfer_callback"
    /\ last.outcome # "ok"
    /\ last.pushed >= 1
    /\ Len(built) = 1
    /\ utxos # <<>>
    /\ Cardinality(finalised_transfers) = 2

(***************************************************************************)
(* Script::from_bytes on its own: every byte string of up to MaxScript     *)
(* bytes over ScriptBytes, and the longer scripts of ScriptPool and        *)
(* LongScripts, each classified in one step.                               *)
(***************************************************************************)
MaxScript == 4

\* 0x00, 0x14, 0x6a, two small lengths, "a", and the two bytes of "é"
\* (either of them alone is not UTF-8).
ScriptBytes == {OP_0, PUSH_20, OP_RETURN, 1, 2, 97, 195, 169}

ShortScripts == UNION {[1..n -> ScriptBytes] : n \in 0..MaxScript}

LongScripts ==
    {WitnessV0Script(SubSeq(KeyHash, 1, 19)),            \* 21 bytes
     WitnessV0Script(KeyHash \o <<7>>),                  \* 23 bytes
     <<OP_RETURN, 9>> \o Alice,                          \* declares 9, holds 5
     <<OP_RETURN, 2>> \o Alice}                          \* declares 2, holds 5

ScriptInputs == ShortScripts \cup ScriptPool \cup LongScripts

ClassifyInit ==
    /\ bitcoin_pk = HexEncode(KeyHash)
    /\ finalised_transfers = {}
    /\ utxos = <<>>
    /\ new_transfers = <<>>
    /\ min_nonce = 0
    /\ last_nonce = 0
    /\ pending_fin = EmptyBag
    /\ pending_sign = EmptyBag
    /\ inserted = <<>>
    /\ mints = <<>>
    /\ burns = <<>>
    /\ events = <<>>
    /\ enqueued = <<>>
    /\ built = <<>>
    /\ last = Call("new", None, [tag |-> "none", str |-> <<>>], 0)

ClassifyScript ==
    \E script_raw \in ScriptInputs :
        /\ last.op = "new"
        /\ last' = Call("Script::from_bytes", script_raw,
                        Script_from_bytes(script_raw), 0)
        /\ UNCHANGED <<contract, pending_fin, pending_sign, inserted, mints,
                       burns, events, enqueued, built>>

ClassifyNext == ClassifyScript

ClassifySpec == ClassifyInit /\ [][ClassifyNext]_vars

\* The two shapes of the specification.
RoutingShape(script_raw) ==
    /\ Len(script_raw) >= 2
    /\ script_raw[1] = 106
    /\ script_raw[2] = Len(script_raw) - 2
    /\ ValidUtf8(SliceFrom(script_raw, 2))

CustodyShape(script_raw) ==
    /\ Len(script_raw) = 22
    /\ script_raw[1] = 0
    /\ script_raw[2] = 20

(***************************************************************************)
(* C18: classification accepts exactly two shapes.  0x6a, a length byte L  *)
(* and exactly L UTF-8 bytes gives OpReturn with that text; exactly 22     *)
(* bytes starting 0x00 0x14 gives V0P2wpkh with the hex of the 20 payload  *)
(* bytes; every other byte string gets the result Err.                     *)
(***************************************************************************)
C18_ExactlyTwoShapes ==
    (last.op = "Script::from_bytes")
        => LET script_raw == last.arg
               result == last.outcome
           IN  IF RoutingShape(script_raw)
               THEN result = [tag |-> "OpReturn", str |-> SliceFrom(script_raw, 2)]
               ELSE IF CustodyShape(script_raw)
               THEN result = [tag |-> "V0P2wpkh",
                              str |-> HexEncode(SliceFrom(script_raw, 2))]
               ELSE result.tag = "Err"

(***************************************************************************)
(* The decoder of transaction.rs.  A decoder takes the bytes and a cursor  *)
(* (0-based offset) and returns Ok with a value and the moved cursor, or   *)
(* Err with a message; a panic is the third outcome.  Integers are kept as *)
(* their little-endian bytes; usize is 64 bits wide.                       *)
(***************************************************************************)
Ok(value, offset) == [tag |-> "Ok", value |-> value, offset |-> offset]
Err(msg) == [tag |-> "Err", msg |-> msg]
Panic(msg) == [tag |-> "panic", msg |-> msg]

\* u8, u16, u32, i32, u64 ::from_bytes: width bytes at the cursor.
fixed_from_bytes(bytes, offset, width, msg) ==
    IF offset + width > Len(bytes)
    THEN Err(msg)
    ELSE Ok(SubSeq(bytes, offset + 1, offset + width), offset + width)

u8_from_bytes(bytes, offset) ==
    fixed_from_bytes(bytes, offset, 1, "Not enough bytes for parsing u8")

\* Variant: the cursor moves by one byte only.
u16_from_bytes_short(bytes, offset) ==
    IF offset + 2 > Len(bytes)
    THEN Err("Not enough bytes for parsing u16")
    ELSE Ok(SubSeq(bytes, offset + 1, offset + 2), offset + 1)

u16_from_bytes(bytes, offset) ==
    fixed_from_bytes(bytes, offset, 2, "Not enough bytes for parsing u16")
u32_from_bytes(bytes, offset) ==
    fixed_from_bytes(bytes, offset, 4, "Not enough bytes for parsing u32")
i32_from_bytes(bytes, offset) ==
    fixed_from_bytes(bytes, offset, 4, "Not enough bytes for parsing i32")
u64_from_bytes(bytes, offset) ==
    fixed_from_bytes(bytes, offset, 8, "Not enough bytes for parsing u64")

\* x.into(): zero-extension to the 8 bytes of a u64.
IntoU64(le) == le \o [k \in 1..(8 - Len(le)) |-> 0]

\* x < 2^(8 * width) for little-endian x: the bytes above width are zero.
BelowPow(le, width) == \A k \in (width + 1)..Len(le) : le[k] = 0

VarInt_from_bytes(bytes, offset) ==
    LET n == u8_from_bytes(bytes, offset)
    IN  IF n.tag # "Ok" THEN n
        ELSE IF n.value[1] = 255
        THEN LET x == u64_from_bytes(bytes, n.offset)
             IN  IF x.tag # "Ok" THEN x
                 ELSE IF BelowPow(x.value, 4) THEN Err("Incorrect VarInt")
                 ELSE Ok(IntoU64(x.value), x.offset)
        ELSE IF n.value[1] = 254
        THEN LET x == u32_from_bytes(bytes, n.offset)
             IN  IF x.tag # "Ok" THEN x
                 ELSE IF BelowPow(x.value, 2) THEN Err("Incorrect VarInt")
                 ELSE Ok(IntoU64(x.value), x.offset)
        ELSE IF n.value[1] = 253
        THEN LET x == u16_from_bytes(bytes, n.offset)
             IN  IF x.tag # "Ok" THEN x
                 ELSE IF x.value[1] + 256 * x.value[2] < 253
                 THEN Err("Incorrect VarInt")
                 ELSE Ok(IntoU64(x.value), x.offset)
        ELSE Ok(IntoU64(n.value), n.offset)

(***************************************************************************)
(* VarInt::from_bytes on its own: a prefix byte, a first payload byte and  *)
(* further payload bytes, cut to every length up to MaxVarIntInput, read   *)
(* from cursor 0 or 1.                                                     *)
(***************************************************************************)
MaxVarIntInput == 9

VarIntPrefixes == {0, 252, 253, 254, 255}
VarIntFirst == {0, 252, 253, 255}

VarIntInputs ==
    {SubSeq(<<p, f>> \o rest, 1, n) :
        p \in VarIntPrefixes, f \in VarIntFirst,
        rest \in [1..(MaxVarIntInput - 2) -> {0, 1}], n \in 0..MaxVarIntInput}

VarIntInit ==
    /\ bitcoin_pk = HexEncode(KeyHash)
    /\ finalised_transfers = {}
    /\ utxos = <<>>
    /\ new_transfers = <<>>
    /\ min_nonce = 0
    /\ last_nonce = 0
    /\ pending_fin = EmptyBag
    /\ pending_sign = EmptyBag
    /\ inserted = <<>>
    /\ mints = <<>>
    /\ burns = <<>>
    /\ events = <<>>
    /\ enqueued = <<>>
    /\ built = <<>>
    /\ last = Call("new", None, Err("none"), 0)

DecodeVarInt ==
    \E bytes \in VarIntInputs, offset \in 0..1 :
        /\ last.op = "new"
        /\ last' = Call("VarInt::from_bytes", [bytes |-> bytes, offset |-> offset],
                        VarInt_from_bytes(bytes, offset), 0)
        /\ UNCHANGED <<contract, pending_fin, pending_sign, inserted, mints,
                       burns, events, enqueued, built>>

VarIntNext == DecodeVarInt

VarIntSpec == VarIntInit /\ [][VarIntNext]_vars

(***************************************************************************)
(* C19: compact-integer decoding accepts exactly the canonical encodings.  *)
(* A first byte 0..252 decodes to itself; 0xFD and a u16 is accepted iff   *)
(* the value is above 252, 0xFE and a u32 iff it is above 0xFFFF, 0xFF and *)
(* a u64 iff it is above 0xFFFFFFFF; everything else, a cut-off input      *)
(* included, is a decode error; on success the cursor has moved by 1, 3,   *)
(* 5 or 9 bytes.                                                           *)
(***************************************************************************)
EncodedWidth(prefix) ==
    IF prefix <= 252 THEN 1 ELSE IF prefix = 253 THEN 3 ELSE IF prefix = 254 THEN 5 ELSE 9

Canonical(prefix, payload) ==
    CASE prefix <= 252 -> TRUE
      [] prefix = 253 -> payload[1] + 256 * payload[2] > 252
      [] prefix = 254 -> payload[3] # 0 \/ payload[4] # 0
      [] prefix = 255 -> \E k \in 5..8 : payload[k] # 0

C19_CanonicalOnly ==
    (last.op = "VarInt::from_bytes")
        => LET bytes == last.arg.bytes
               offset == last.arg.offset
               result == last.outcome
               prefix == bytes[offset + 1]
               width == EncodedWidth(prefix)
               payload == SubSeq(bytes, offset + 2, offset + width)
           IN  IF /\ offset + 1 <= Len(bytes)
                  /\ offset + width <= Len(bytes)
                  /\ Canonical(prefix, payload)
               THEN /\ result.tag = "Ok"
                    /\ result.offset = offset + width
                    /\ result.offset - offset \in {1, 3, 5, 9}
                    /\ Len(result.value) = 8
                    /\ \A k \in 1..8 :
                           result.value[k] =
                               IF width = 1 THEN (IF k = 1 THEN prefix ELSE 0)
                               ELSE IF k < width THEN payload[k] ELSE 0
               ELSE result.tag = "Err"

\* 0xFD 0xFD 0x00, the smallest value the u16 form may carry, was read with
\* bytes to spare and accepted, the cursor moved by 3.
C19_Witness ==
    /\ last.op = "VarInt::from_bytes"
    /\ last.arg.offset = 0
    /\ Len(last.arg.bytes) = 5
    /\ SubSeq(last.arg.bytes, 1, 3) = <<253, 253, 0>>
    /\ last.outcome.tag = "Ok"
    /\ last.outcome.offset = 3

(***************************************************************************)
(* The other decoders of transaction.rs.                                   *)
(***************************************************************************)
\* VarInt(..).0 as usize, as a number when it is below 2^24; larger lengths
\* are only ever compared with the input's length.
FitsNumber(le) == BelowPow(le, 3)
AsNumber(le) == le[1] + 256 * le[2] + 65536 * le[3]

\* *offset + length wraps (or, with overflow checks, panics): the sum
\* reaches 2^64.  The cursor is far below 2^16.
AddOverflows(offset, le) ==
    /\ \A k \in 3..8 : le[k] = 255
    /\ le[1] + 256 * le[2] + offset >= 65536

\* The ? operator: the step is evaluated once; its error or abort ends the
\* function, its Ok value goes on to the rest of the function.
Try(step, Rest(_)) ==
    CHOOSE result \in {IF r.tag # "Ok" THEN r ELSE Rest(r) : r \in {step}} : TRUE

\* impl ConsensusDecoder for Vec<u8>.  When the sum wraps, the bound test
\* passes and the slice bytes[offset..wrapped] panics.
VecU8_from_bytes(bytes, offset) ==
    Try(VarInt_from_bytes(bytes, offset), LAMBDA length :
        IF ~FitsNumber(length.value)
        THEN IF AddOverflows(length.offset, length.value)
             THEN Panic("offset + length overflows")
             ELSE Err("Not enough bytes for decode Vec<u8>")
        ELSE IF length.offset + AsNumber(length.value) > Len(bytes)
        THEN Err("Not enough bytes for decode Vec<u8>")
        ELSE Ok(SubSeq(bytes, length.offset + 1,
                       length.offset + AsNumber(length.value)),
                length.offset + AsNumber(length.value)))

\* impl ConsensusDecoder for Script: the same tests as Script_from_bytes on
\* the decoded vector.
Script_decode(bytes, offset) ==
    Try(VecU8_from_bytes(bytes, offset), LAMBDA script_raw :
        LET script == Script_from_bytes(script_raw.value)
        IN  IF script.tag = "panic" THEN Panic("Script::from_bytes")
            ELSE IF script.tag = "Err" THEN Err("Incorrect script")
            ELSE Ok(script, script_raw.offset))

H256_from_bytes(bytes, offset) ==
    fixed_from_bytes(bytes, offset, 32, "Not enough bytes for parsing H256")

OutPoint_from_bytes(bytes, offset) ==
    Try(H256_from_bytes(bytes, offset), LAMBDA txid :
    Try(u32_from_bytes(bytes, txid.offset), LAMBDA vout :
        Ok([txid |-> txid.value, vout |-> vout.value], vout.offset)))

TxIn_from_bytes(bytes, offset) ==
    Try(OutPoint_from_bytes(bytes, offset), LAMBDA previous_output :
    Try(VecU8_from_bytes(bytes, previous_output.offset), LAMBDA script_sig :
    Try(u32_from_bytes(bytes, script_sig.offset), LAMBDA sequence :
        Ok([previous_output |-> previous_output.value,
            script_sig |-> script_sig.value,
            sequence |-> sequence.value], sequence.offset))))

TxOut_from_bytes(bytes, offset) ==
    Try(u64_from_bytes(bytes, offset), LAMBDA value :
    Try(Script_decode(bytes, value.offset), LAMBDA script_pubkey :
        Ok([value |-> value.value, script_pubkey |-> script_pubkey.value],
           script_pubkey.offset)))

\* A length beyond 2^24 runs the loop until the input is used up.
LoopCount(le, bytes) == IF FitsNumber(le) THEN AsNumber(le) ELSE Len(bytes) + 1

\* The loop of Vec<TxIn>: left more elements to decode.
RECURSIVE PushTxIns(_, _, _, _)
PushTxIns(bytes, offset, left, value) ==
    IF left = 0 THEN Ok(value, offset)
    ELSE Try(TxIn_from_bytes(bytes, offset), LAMBDA txin :
             PushTxIns(bytes, txin.offset, left - 1, Append(value, txin.value)))

VecTxIn_from_bytes(bytes, offset) ==
    Try(VarInt_from_bytes(bytes, offset), LAMBDA length :
        PushTxIns(bytes, length.offset, LoopCount(length.value, bytes), <<>>))

\* The loop of Vec<TxOut>.
RECURSIVE PushTxOuts(_, _, _, _)
PushTxOuts(bytes, offset, left, value) ==
    IF left = 0 THEN Ok(value, offset)
    ELSE Try(TxOut_from_bytes(bytes, offset), LAMBDA txout :
             PushTxOuts(bytes, txout.offset, left - 1,
                        Append(value, txout.value)))

VecTxOut_from_bytes(bytes, offset) ==
    Try(VarInt_from_bytes(bytes, offset), LAMBDA length :
        PushTxOuts(bytes, length.offset, LoopCount(length.value, bytes), <<>>))

Transaction_from_bytes(bytes, offset) ==
    Try(i32_from_bytes(bytes, offset), LAMBDA version :
    Try(VecTxIn_from_bytes(bytes, version.offset), LAMBDA input :
    Try(VecTxOut_from_bytes(bytes, input.offset), LAMBDA output :
    Try(u32_from_bytes(bytes, output.offset), LAMBDA lock_time :
        Ok([version |-> version.value, lock_time |-> lock_time.value,
            input |-> input.value, output |-> output.value],
           lock_time.offset)))))

(***************************************************************************)
(* Transaction::from_bytes on its own: the transaction of test_decode_tx   *)
(* cut to every length, and that transaction with its outputs replaced by  *)
(* one output whose script field is one of ScriptFields.                   *)
(***************************************************************************)
TestTx ==
    <<2, 0, 0, 0, 1, 146, 97, 87, 240, 48, 14, 73, 34, 141, 7, 70, 93, 114, 66,
      33, 225, 162, 61, 65, 121, 144, 125, 23, 135, 76, 73, 173, 138, 39, 187,
      4, 2, 1, 0, 0, 0, 0, 255, 255, 255, 255, 3, 44, 1, 0, 0, 0, 0, 0, 0, 22,
      0, 20, 57, 110, 118, 95, 63, 217, 155, 137, 76, 174, 167, 233, 46, 187,
      109, 135, 100, 174, 92, 221, 220, 5, 0, 0, 0, 0, 0, 0, 22, 0, 20, 171,
      25, 243, 146, 206, 8, 220, 194, 181, 209, 37, 38, 57, 134, 222, 74, 165,
      156, 95, 221, 0, 0, 0, 0, 0, 0, 0, 0, 17, 106, 15, 72, 101, 108, 108,
      111, 44, 32, 66, 105, 116, 99, 111, 105, 110, 33, 0, 0, 0, 0>>

\* Version, the input count and the one input of TestTx.
TestTxHead == SubSeq(TestTx, 1, 46)

\* A script field is the compact length and the bytes that follow it.
ScriptFields ==
    {<<0>>,                                        \* an empty script
     <<1, 0>>,                                     \* the one byte 0x00
     <<1, 106>>,                                   \* the one byte 0x6a
     <<3, 106, 1, 195>>,                           \* OP_RETURN, payload not UTF-8
     <<2, 81, 82>>,                                \* neither shape
     <<2, 106, 0>>,                                \* OP_RETURN, empty text
     <<22>> \o HashScript,                         \* P2WPKH
     <<9, 106, 7>>,                                \* declares 9 bytes, 2 follow
     <<254, 255, 255, 255, 255>>,                  \* declares 2^32 - 1 bytes
     <<255, 255, 255, 255, 255, 255, 255, 255, 255>>}   \* declares 2^64 - 1

OneOutputTx(field) ==
    TestTxHead \o <<1>> \o <<232, 3, 0, 0, 0, 0, 0, 0>> \o field \o <<0, 0, 0, 0>>

DecodeInputs ==
    {SubSeq(TestTx, 1, n) : n \in 0..Len(TestTx)}
        \cup {OneOutputTx(field) : field \in ScriptFields}

DecodeInit ==
    /\ bitcoin_pk = HexEncode(KeyHash)
    /\ finalised_transfers = {}
    /\ utxos = <<>>
    /\ new_transfers = <<>>
    /\ min_nonce = 0
    /\ last_nonce = 0
    /\ pending_fin = EmptyBag
    /\ pending_sign = EmptyBag
    /\ inserted = <<>>
    /\ mints = <<>>
    /\ burns = <<>>
    /\ events = <<>>
    /\ enqueued = <<>>
    /\ built = <<>>
    /\ last = Call("new", None, Err("none"), 0)

DecodeTransaction ==
    \E bytes \in DecodeInputs :
        /\ last.op = "new"
        /\ last' = Call("Transaction::from_bytes", bytes,
                        Transaction_from_bytes(bytes, 0), 0)
        /\ UNCHANGED <<contract, pending_fin, pending_sign, inserted, mints,
                       burns, events, enqueued, built>>

DecodeNext == DecodeTransaction

DecodeSpec == DecodeInit /\ [][DecodeNext]_vars

(***************************************************************************)
(* C20: transaction decoding returns Ok or a typed error for every byte    *)
(* string and never aborts; it reads nothing past the input; and an input  *)
(* cut short of what its fields and declared lengths need is an error.     *)
(***************************************************************************)
C20_NeverAborts ==
    (last.op = "Transaction::from_bytes")
        => /\ last.outcome.tag \in {"Ok", "Err"}
           /\ last.outcome.tag = "Ok" => last.outcome.offset <= Len(last.arg)
           /\ (\E n \in 0..(Len(TestTx) - 1) : last.arg = SubSeq(TestTx, 1, n))
                  => last.outcome.tag = "Err"

(***************************************************************************)
(* serialize and deserialize on their own: on the transactions of          *)
(* RoundTripTxs, and on the transaction sign builds and serialises in the  *)
(* states of SignStates, read back as sign_callback reads it.              *)
(***************************************************************************)
MaxTxFields == 2      \* inputs, and outputs, of one transaction

RoundTripInputs ==
    {[previous_output |-> [txid |-> "A", vout |-> v], script_sig |-> <<>>,
      sequence |-> <<255, 255, 255, 255>>, witness |-> w] :
        v \in {0, 1}, w \in {<<>>, <<"sig", KeyBytes>>}}

RoundTripOutputs ==
    {Out(3000, address_script_pubkey("bc1q-dest-1")), Out(0, <<>>)}

\* The well-formed transactions: any number of inputs and of outputs, with
\* and without witnesses.
RoundTripTxs ==
    {[version |-> v, lock_time |-> l, input |-> i, output |-> o] :
        v \in {1, 2}, l \in {0, 500000},
        i \in UNION {[1..n -> RoundTripInputs] : n \in 0..MaxTxFields},
        o \in UNION {[1..n -> RoundTripOutputs] : n \in 0..MaxTxFields}}

\* Contract states with one pending transfer, stored by ft_on_transfer.
SignStates ==
    {[bitcoin_pk |-> HexEncode(KeyBytes), finalised_transfers |-> {},
      utxos |-> us,
      new_transfers |->
          ft_on_transfer([new_transfers |-> <<>>, last_nonce |-> 0],
                         req.sender_id, req.amount, req.msg).new_transfers,
      min_nonce |-> 0, last_nonce |-> 0] :
        us \in Ledgers, req \in Requests}

RoundTripInit ==
    /\ bitcoin_pk = HexEncode(KeyBytes)
    /\ finalised_transfers = {}
    /\ utxos = <<>>
    /\ new_transfers = <<>>
    /\ min_nonce = 0
    /\ last_nonce = 0
    /\ pending_fin = EmptyBag
    /\ pending_sign = EmptyBag
    /\ inserted = <<>>
    /\ mints = <<>>
    /\ burns = <<>>
    /\ events = <<>>
    /\ enqueued = <<>>
    /\ built = <<>>
    /\ last = Call("new", None, [ok |-> FALSE], 0)

\* deserialize(&serialize(&t)).
RoundTrip ==
    \E t \in RoundTripTxs :
        /\ last.op = "new"
        /\ last' = Call("serialize", t, deserialize(serialize(t)), 0)
        /\ UNCHANGED <<contract, pending_fin, pending_sign, inserted, mints,
                       burns, events, enqueued, built>>

\* sign's serialize(&unsigned_tx), then sign_callback's deserialize(&ser_tx).
SignRoundTrip ==
    \E st \in SignStates :
        LET r == sign(st)
        IN  /\ last.op = "new"
            /\ last' = IF r.outcome = "ok"
                       THEN Call("sign", Some(r.build.unsigned_tx),
                                 deserialize(r.ser_tx), 0)
                       ELSE Call("sign", None, [ok |-> FALSE], 0)
            /\ UNCHANGED <<contract, pending_fin, pending_sign, inserted,
                           mints, burns, events, enqueued, built>>

RoundTripNext ==
    \/ RoundTrip
    \/ SignRoundTrip

RoundTripSpec == RoundTripInit /\ [][RoundTripNext]_vars

C22_PaysNoMoreThanItSpends ==
    \A j \in DOMAIN built :
        built[j].unsigned_tx.output[1].value <= built[j].utxo.value

(***************************************************************************)
(* C23: in every reachable state no two entries of the UTXO ledger have    *)
(* the same (txid, vout).                                                  *)
(***************************************************************************)
C23_UniqueOutpoints ==
    \A i, j \in DOMAIN utxos :
        i # j => OutpointOf(utxos[i]) # OutpointOf(utxos[j])

\* Both custody outputs of transaction a are in the ledger and a second
\* verified callback for a has just been turned away.
C23_Witness ==
    /\ last.op = "fin_transfer_callback"
    /\ last.outcome = "The transfer is already finalised"
    /\ \E i, j \in DOMAIN utxos :
           /\ OutpointOf(utxos[i]) = [txid |-> "A", vout |-> 0]
           /\ OutpointOf(utxos[j]) = [txid |-> "A", vout |-> 2]

(***************************************************************************)
(* C24: for every funds-received notification with amount a, the amount    *)
(* passed to burn is a, and the value stored in the enqueued transfer and  *)
(* the value reported in the deposit-initiated event equal a; nothing is   *)
(* recorded modulo 2^64.                                                   *)
(***************************************************************************)
FtOnTransferStep == last'.op = "ft_on_transfer"

C24_Recorded ==
    FtOnTransferStep
        => LET e == enqueued'[Len(enqueued')]
           IN  /\ burns'[Len(burns')].amount = e.amount
               /\ U128(0, new_transfers'[e.nonce].value) = e.amount
               /\ U128(0, events'[Len(events')].value) = e.amount

C24_AmountRecordedInFull == [][C24_Recorded]_vars

(***************************************************************************)
(* C25: every transfer in the queue, and every transfer sign has built a   *)
(* transaction for, was stored by a notification that came from the        *)
(* balance-ledger contract and whose burn was for the transfer's value; a  *)
(* call by any other account leaves no transfer behind.                    *)
(***************************************************************************)
FromBurn(transfer) ==
    \E k \in DOMAIN enqueued :
        /\ enqueued[k].transfer = transfer
        /\ enqueued[k].predecessor = "omni_btc"
        /\ burns[k].amount = U128(0, transfer.value)

C25_QueuedOnlyByBurn ==
    /\ \A n \in DOMAIN new_transfers : FromBurn(new_transfers[n])
    /\ \A j \in DOMAIN built : FromBurn(built[j].transfer)

====
